---- MODULE Spec2Model ----
(***************************************************************************)
(* Clocked: the feed store (usePosts), the vote store (useVote), the post  *)
(* card and the post feed that call them, and the backend they talk to     *)
(* (PostService / RealtimeService over the hosted database).               *)
(*                                                                         *)
(* One usePosts instance and one useVote instance are modelled.  Their     *)
(* exported operations (UsePostsReturn, UseVoteReturn) are actions that    *)
(* any consumer may invoke; PostCard.handleVote and                        *)
(* PostFeed.handleEndReached are the consumers the repository ships.       *)
(* Every await is a suspension point: a request is issued by one action,   *)
(* answered by the backend in a second one and its continuation runs in    *)
(* a third (fetches) or the answer and the continuation are one step       *)
(* (vote calls, whose answer carries no data).                             *)
(***************************************************************************)
EXTENDS Integers, Sequences, FiniteSets, Bags, TLC

(* ---------------------------------------------------------------------- *)
(* Bounds of the model                                                    *)
(* ---------------------------------------------------------------------- *)

\* post ids the backend ever hands out: 1..MaxPosts, in creation order; up to
\* pageSize of them exist when the hook is constructed
MaxPosts == 3
\* getPosts requests that may be in flight at once
MaxFetches == 2
\* taps (vote / removeVote invocations that pass the login guard) in a run
MaxTaps == 3
\* events the auth client emits in a run (sign-ins, sign-outs, token refreshes)
MaxAuthEvents == 3

\* usePosts' page size; the source has 20, scaled down so that a second
\* page exists within MaxPosts
pageSize == 2

\* setTimeout delays of the vote hook, in ms
DEBOUNCE_MS == 300
GRACE_MS == 1000

PostIds == 1..MaxPosts
\* the two posts the vote operations and updatePost are exercised on
VoteIds == {1, 2}
\* the post the viewer may already have voted on when the screen opens
VotedBefore == {1}

\* the viewer: useAuth's user?.id, undefined when signed out
NoUser == "undefined"
Viewer == "u1"

\* 'green' | 'red' | null, and a missing key of optimisticVotes
VoteKinds == {"green", "red"}
Null == "null"
Undefined == "undefined"
ServerVotes == VoteKinds \cup {Null}

VARIABLES
  \* ---- usePosts
  posts, isLoading, isLoadingMore, error, hasMore, page,
  mounted, realtimeChannel,
  \* getPosts requests in flight: a bag of requests
  fetches,
  \* ---- backend
  srvPosts, nextPostId, srvVote, rtQueue,
  \* ---- useVote
  userId, isVoting, optimisticVotes, voteTimeouts,
  timers, calls, graceTimers, taps,
  \* ---- PostCard: the card is mounted; the title of the Alert it showed last
  voteMounted, alert,
  \* ---- the realtime client: the number of open channels per topic
  channels,
  \* ---- useSinglePost
  spPostId, spPost, spIsLoading, spError, spMounted, voteChannel, spLoads,
  \* ---- useAuth: the state of each instance, its awaits in flight
  auth, authTasks,
  \* ---- the auth client and the profiles table; the App's "ready" flag
  session, srvStatus, authEvents, appReady,
  \* ---- bookkeeping of the model: ids that entered the list by a realtime insert
  viaRealtime,
  \* ---- bookkeeping of the model: the handler that ran last and its argument
  last

feedVars == <<posts, isLoading, isLoadingMore, error, hasMore, page,
              mounted, realtimeChannel, fetches, viaRealtime>>
serverVars == <<srvPosts, nextPostId, rtQueue>>
voteVars == <<isVoting, optimisticVotes, voteTimeouts, timers, calls,
              graceTimers, taps, voteMounted>>
singleVars == <<spPostId, spPost, spIsLoading, spError, spMounted, voteChannel, spLoads>>
authVars == <<auth, authTasks, session, srvStatus, authEvents, appReady>>
\* what neither usePosts nor useVote writes
lifeVars == <<channels, singleVars, authVars>>
\* the program's state, and with it the model's record of the last handler
state == <<feedVars, serverVars, voteVars, srvVote, userId, alert, lifeVars>>
vars == <<state, last>>

\* only the handlers the properties below speak about are told apart
Ran(op, arg) == [op |-> op, arg |-> arg]
Other == Ran("-", 0)

(* ---------------------------------------------------------------------- *)
(* useAuth: values                                                        *)
(* ---------------------------------------------------------------------- *)

\* the people who sign in on the device
Users == {"u1", "u2"}
\* profiles.verification_status
Approved == "approved"

\* the components that call useAuth() and decide what is rendered: each call
\* is an instance of the hook with its own state, effect and listener
\* (AuthScreen calls it too and takes only the sign-in functions from it)
App == "App"
HomeScreen == "HomeScreen"
PostFeed == "PostFeed"
Insts == {App, HomeScreen, PostFeed}

\* Profile | null
NoProfile == [id |-> Null, status |-> Null]

\* the state of an instance after its first render and the start of its
\* effect: useState(null), useState(null), useState(true), useState(null);
\* mounted is the effect's `let mounted`
FreshAuth ==
  [user |-> Null, profile |-> NoProfile, isLoading |-> TRUE, error |-> Null,
   mounted |-> TRUE]

\* an instance whose component is not rendered
DeadAuth == [FreshAuth EXCEPT !.mounted = FALSE]

\* the hooks are driven on their own: there is no instance of useAuth and no
\* profile is read
NoAuth ==
  /\ auth = <<>>
  /\ authTasks = {}
  /\ session = Null
  /\ srvStatus = <<>>
  /\ authEvents = 0
  /\ appReady = FALSE

(* ---------------------------------------------------------------------- *)
(* Sequence helpers                                                       *)
(* ---------------------------------------------------------------------- *)

Range(s) == {s[i] : i \in DOMAIN s}

Ids(s) == {s[i].id : i \in DOMAIN s}

RECURSIVE SeqFilter(_, _)
\* Array.prototype.filter with the predicate "id is in keep"
SeqFilter(s, keep) ==
  IF s = <<>> THEN <<>>
  ELSE IF Head(s).id \in keep
       THEN <<Head(s)>> \o SeqFilter(Tail(s), keep)
       ELSE SeqFilter(Tail(s), keep)

\* rows offset .. offset+limit-1 of s (supabase .range)
RangeOf(s, offset, limit) ==
  SubSeq(s, offset + 1, IF offset + limit < Len(s) THEN offset + limit ELSE Len(s))

\* newest first: <<k, k-1, ..., 1>>
NewestFirst(k) == [i \in 1..k |-> k + 1 - i]

(* ---------------------------------------------------------------------- *)
(* Backend: PostService.getPosts                                          *)
(* ---------------------------------------------------------------------- *)

\* votes of the other users on a post, fixed in a run
OtherGreen(p) == IF p = 2 THEN 1 ELSE 0
OtherRed(p) == IF p = 2 THEN 2 ELSE 0

\* the viewer's vote row for post p, if any
UserVoteRow(uid, p) == IF uid = NoUser THEN Null ELSE srvVote[p]

\* the votes rows of a post of one kind: the other users' and the viewer's
VotesOfKind(p, kind) ==
  (IF kind = "green" THEN OtherGreen(p) ELSE OtherRed(p))
    + (IF srvVote[p] = kind THEN 1 ELSE 0)

\* postsWithVotes: one post of the page with its aggregated counts and the
\* viewer's vote.  The result of a failed votes query is read as no rows
\* (votes?.filter(...) || [], data || []).
EnrichedPost(uid, p, votesOk, userVotesOk) ==
  [id |-> p,
   green_votes |-> IF votesOk THEN VotesOfKind(p, "green") ELSE 0,
   red_votes |-> IF votesOk THEN VotesOfKind(p, "red") ELSE 0,
   user_vote |-> IF userVotesOk THEN UserVoteRow(uid, p) ELSE Null]

\* one post of a page whose three queries succeeded
PostWithVotes(uid, p) == EnrichedPost(uid, p, TRUE, TRUE)

\* active posts, newest first, rows offset..offset+limit-1, enriched
getPosts(uid, limit, offset) ==
  LET rows == RangeOf(srvPosts, offset, limit)
  IN [i \in DOMAIN rows |-> PostWithVotes(uid, rows[i])]

\* the error string getPosts returns when the posts query fails
PostsQueryError == "Failed to load posts"

\* what the three queries of getPosts can do: succeed or fail
QueryOutcomes == [posts : BOOLEAN, votes : BOOLEAN, userVotes : BOOLEAN]

\* faulty variant: a failed enrichment query fails the page
getPostsResultStrict(uid, limit, offset, ok) ==
  LET rows == RangeOf(srvPosts, offset, limit)
  IN IF ~(ok.posts /\ ok.votes /\ ok.userVotes)
     THEN [data |-> Null, error |-> PostsQueryError]
     ELSE [data |-> [i \in DOMAIN rows |-> PostWithVotes(uid, rows[i])], error |-> Null]

\* PostService.getPosts(userId, limit, offset) under the outcomes ok of its
\* queries: { data, error }
getPostsResult(uid, limit, offset, ok) ==
  LET rows == RangeOf(srvPosts, offset, limit)
  IN IF ~ok.posts
     THEN [data |-> Null, error |-> PostsQueryError]
     ELSE [data |-> [i \in DOMAIN rows |->
                       EnrichedPost(uid, rows[i], ok.votes, ok.userVotes)],
           error |-> Null]

\* data || [] of a result: data is null exactly when error is set
orEmpty(r) == IF r.error = Null THEN r.data ELSE <<>>

\* the row a realtime INSERT delivers: the posts row alone, no computed field
\* (PostCard reads a missing count as 0 and a missing user_vote as null)
RealtimeRow(p) ==
  [id |-> p, green_votes |-> 0, red_votes |-> 0, user_vote |-> Null]

\* a getPosts request of loadPosts that awaits its answer: the page, the viewer
\* it asks for, and whether the effect that was live when it was made has been
\* torn down since (bookkeeping of the model)
SentFetchBy(uid, pageNum, replace) ==
  [st |-> "sent", pageNum |-> pageNum, replace |-> replace, uid |-> uid,
   stale |-> FALSE, data |-> <<>>, err |-> Null]

SentFetch(pageNum, replace) == SentFetchBy(userId, pageNum, replace)

\* bag helpers: one more / one less copy of e
BagAdd(b, e) == b (+) SetToBag({e})
BagRemove(b, e) == b (-) SetToBag({e})

\* every request of the bag marked as made before a teardown
StaleAll(b) ==
  LET marked == {[f EXCEPT !.stale = TRUE] : f \in BagToSet(b)}
  IN [g \in marked |-> CopiesIn(g, b) + CopiesIn([g EXCEPT !.stale = FALSE], b)]

(* ---------------------------------------------------------------------- *)
(* RealtimeService                                                        *)
(* ---------------------------------------------------------------------- *)

\* the topics of the two hooks: subscribeToNewPosts, subscribeToPostVotes
NewPosts == "new-posts"
PostVotes == "post-votes"
Topics == {NewPosts, PostVotes}

\* supabase.channel(topic)...subscribe(): one more open channel
subscribed(ch, topic) == [ch EXCEPT ![topic] = @ + 1]

\* RealtimeService.unsubscribe(ref) behind `if (ref.current)`: removeChannel
\* closes the channel the ref holds; an empty ref or a channel that was
\* removed before closes nothing
unsubscribed(ch, topic, ref) ==
  IF ref = "open" THEN [ch EXCEPT ![topic] = @ - 1] ELSE ch

\* the ref after the cleanup: it still holds the channel, now removed
afterCleanup(ref) == IF ref = "open" THEN "closed" ELSE ref

(* ---------------------------------------------------------------------- *)
(* usePosts                                                               *)
(* ---------------------------------------------------------------------- *)

\* "Remove duplicates": the posts of newPosts whose id is not in prevPosts
uniqueNewPosts(prevPosts, newPosts) ==
  SeqFilter(newPosts, Ids(newPosts) \ Ids(prevPosts))

\* faulty variant: the page is appended as it came, duplicates included
appendPostsUnfiltered(prevPosts, newPosts) == prevPosts \o newPosts

\* setPosts(prevPosts => [...prevPosts, ...uniqueNewPosts])
appendPosts(prevPosts, newPosts) ==
  prevPosts \o uniqueNewPosts(prevPosts, newPosts)

\* faulty variant: page 0 is merged into the list like any other page
loadedPostsAlwaysAppends(prevPosts, newPosts, pageNum, replace) ==
  appendPosts(prevPosts, newPosts)

\* the list loadPosts leaves after a successful fetch
loadedPosts(prevPosts, newPosts, pageNum, replace) ==
  IF replace \/ pageNum = 0 THEN newPosts ELSE appendPosts(prevPosts, newPosts)

\* faulty variant: the new post is put at the end of the list
withNewPostAtEnd(prevPosts, newPost) ==
  IF \E i \in DOMAIN prevPosts : prevPosts[i].id = newPost.id
  THEN prevPosts
  ELSE prevPosts \o <<newPost>>

\* faulty variant: the new post is prepended without looking for its id
withNewPostUnchecked(prevPosts, newPost) == <<newPost>> \o prevPosts

\* setPosts of handleNewPost
withNewPost(prevPosts, newPost) ==
  IF \E i \in DOMAIN prevPosts : prevPosts[i].id = newPost.id
  THEN prevPosts
  ELSE <<newPost>> \o prevPosts

\* { ...post, ...updates }
mergePost(post, updates) ==
  [f \in DOMAIN post |-> IF f \in DOMAIN updates THEN updates[f] ELSE post[f]]

\* loadPosts up to its await: the flags, then the request
loadPostsCall(pageNum, replace) ==
  /\ BagCardinality(fetches) < MaxFetches
  /\ isLoading' = (IF pageNum = 0 THEN TRUE ELSE isLoading)
  /\ error' = (IF pageNum = 0 THEN Null ELSE error)
  /\ isLoadingMore' = (IF pageNum = 0 THEN isLoadingMore ELSE TRUE)
  /\ fetches' = BagAdd(fetches, SentFetch(pageNum, replace))
  /\ UNCHANGED <<posts, hasMore, page, mounted, realtimeChannel, viaRealtime>>
  /\ UNCHANGED <<serverVars, voteVars, srvVote, userId, alert, lifeVars>>

\* the request f once getPosts has returned r
Answered(f, r) == [f EXCEPT !.st = "answered", !.data = orEmpty(r), !.err = r.error]

\* the backend answers a getPosts request with the page as it is now; each of
\* the three queries succeeds or fails
getPostsAnswerWith(f, ok) ==
  /\ f.st = "sent"
  /\ fetches' = BagAdd(BagRemove(fetches, f),
                       Answered(f, getPostsResult(f.uid, pageSize, f.pageNum * pageSize, ok)))
  /\ UNCHANGED <<posts, isLoading, isLoadingMore, error, hasMore, page,
                 mounted, realtimeChannel, viaRealtime>>
  /\ UNCHANGED <<serverVars, voteVars, srvVote, userId, alert, lifeVars>>

getPostsAnswer(f) == \E ok \in QueryOutcomes : getPostsAnswerWith(f, ok)

\* faulty variant: a failed fetch empties the list
loadPostsResumeBlanks(f) ==
  /\ f.st = "answered"
  /\ fetches' = BagRemove(fetches, f)
  /\ IF ~mounted
     THEN UNCHANGED <<posts, isLoading, isLoadingMore, error, hasMore, page, viaRealtime>>
     ELSE /\ isLoading' = FALSE
          /\ isLoadingMore' = FALSE
          /\ IF f.err # Null
             THEN /\ error' = f.err
                  /\ posts' = <<>>
                  /\ viaRealtime' = {}
                  /\ UNCHANGED <<hasMore, page>>
             ELSE /\ posts' = loadedPosts(posts, f.data, f.pageNum, f.replace)
                  /\ viaRealtime' = (IF f.replace \/ f.pageNum = 0 THEN {} ELSE viaRealtime)
                  /\ hasMore' = (Len(f.data) = pageSize)
                  /\ page' = f.pageNum
                  /\ UNCHANGED error
  /\ UNCHANGED <<mounted, realtimeChannel>>
  /\ UNCHANGED <<serverVars, voteVars, srvVote, userId, alert, lifeVars>>

\* loadPosts after its await
loadPostsResume(f) ==
  /\ f.st = "answered"
  /\ fetches' = BagRemove(fetches, f)
  /\ IF ~mounted
     THEN UNCHANGED <<posts, isLoading, isLoadingMore, error, hasMore, page, viaRealtime>>
     ELSE /\ isLoading' = FALSE
          /\ isLoadingMore' = FALSE
          /\ IF f.err # Null
             THEN /\ error' = f.err
                  /\ UNCHANGED <<posts, hasMore, page, viaRealtime>>
             ELSE /\ posts' = loadedPosts(posts, f.data, f.pageNum, f.replace)
                  /\ viaRealtime' = (IF f.replace \/ f.pageNum = 0 THEN {} ELSE viaRealtime)
                  /\ hasMore' = (Len(f.data) = pageSize)
                  /\ page' = f.pageNum
                  /\ UNCHANGED error
  /\ UNCHANGED <<mounted, realtimeChannel>>
  /\ UNCHANGED <<serverVars, voteVars, srvVote, userId, alert, lifeVars>>

\* refresh(): pull to refresh
refresh ==
  /\ mounted
  /\ loadPostsCall(0, TRUE)

\* loadMore(): returns at once when isLoadingMore or not hasMore
loadMore ==
  /\ mounted
  /\ IF isLoadingMore \/ ~hasMore
     THEN UNCHANGED state
     ELSE loadPostsCall(page + 1, FALSE)

\* PostFeed.handleEndReached: the list's onEndReached
handleEndReached ==
  /\ mounted
  /\ IF hasMore /\ ~isLoadingMore /\ ~isLoading
     THEN loadMore
     ELSE UNCHANGED state

\* the channel delivers the oldest undelivered INSERT to handleNewPost
handleNewPost ==
  /\ rtQueue # <<>>
  /\ rtQueue' = Tail(rtQueue)
  /\ IF ~mounted
     THEN UNCHANGED <<posts, viaRealtime>>
     ELSE /\ posts' = withNewPost(posts, RealtimeRow(Head(rtQueue)))
          /\ viaRealtime' = (IF Head(rtQueue) \in Ids(posts)
                             THEN viaRealtime
                             ELSE viaRealtime \cup {Head(rtQueue)})
  /\ UNCHANGED <<isLoading, isLoadingMore, error, hasMore, page, mounted,
                 realtimeChannel, fetches>>
  /\ UNCHANGED <<srvPosts, nextPostId, voteVars, srvVote, userId, alert, lifeVars>>

\* the patches updatePost is exercised with
Patches == {[green_votes |-> 5, user_vote |-> "green"]}

updatePost(postId, updates) ==
  /\ mounted
  /\ posts' = [i \in DOMAIN posts |->
                 IF posts[i].id = postId THEN mergePost(posts[i], updates) ELSE posts[i]]
  /\ UNCHANGED <<isLoading, isLoadingMore, error, hasMore, page, mounted,
                 realtimeChannel, fetches, viaRealtime>>
  /\ UNCHANGED <<serverVars, voteVars, srvVote, userId, alert, lifeVars>>

removePost(postId) ==
  /\ mounted
  /\ posts' = SeqFilter(posts, Ids(posts) \ {postId})
  /\ viaRealtime' = viaRealtime \ {postId}
  /\ UNCHANGED <<isLoading, isLoadingMore, error, hasMore, page, mounted,
                 realtimeChannel, fetches>>
  /\ UNCHANGED <<serverVars, voteVars, srvVote, userId, alert, lifeVars>>

\* faulty variant: the cleanup leaves the channel open
unmountKeepsChannel ==
  /\ mounted
  /\ mounted' = FALSE
  /\ fetches' = StaleAll(fetches)
  /\ UNCHANGED <<posts, isLoading, isLoadingMore, error, hasMore, page,
                 realtimeChannel, viaRealtime>>
  /\ UNCHANGED <<serverVars, voteVars, srvVote, userId, alert, lifeVars>>

\* the effect's cleanup: the screen closes
unmount ==
  /\ mounted
  /\ mounted' = FALSE
  /\ realtimeChannel' = afterCleanup(realtimeChannel)
  /\ channels' = unsubscribed(channels, NewPosts, realtimeChannel)
  /\ rtQueue' = <<>>
  /\ fetches' = StaleAll(fetches)
  /\ UNCHANGED <<posts, isLoading, isLoadingMore, error, hasMore, page, viaRealtime>>
  /\ UNCHANGED <<srvPosts, nextPostId, voteVars, srvVote, userId, alert, singleVars, authVars>>

\* the effect runs again because userId became uid: the cleanup of the
\* previous run, then mounted.current = true, loadPosts(0, true) and, for a
\* signed-in viewer, a new subscription.  The state of the hook is kept.
usePostsEffectRerun(uid) ==
  /\ BagCardinality(fetches) < MaxFetches
  /\ mounted' = TRUE
  /\ isLoading' = TRUE
  /\ error' = Null
  /\ fetches' = BagAdd(StaleAll(fetches), SentFetchBy(uid, 0, TRUE))
  /\ realtimeChannel' = (IF uid # NoUser THEN "open" ELSE afterCleanup(realtimeChannel))
  /\ rtQueue' = <<>>
  /\ UNCHANGED <<posts, isLoadingMore, hasMore, page, viaRealtime>>

\* the new-posts channels after that run
newPostsChannelsAfterRerun(uid) ==
  LET closed == unsubscribed(channels, NewPosts, realtimeChannel)
  IN IF uid # NoUser THEN subscribed(closed, NewPosts) ELSE closed

\* PostFeed: `if (error && !posts.length) return <ErrorState />`
showsErrorState == error # Null /\ Len(posts) = 0

(* ---------------------------------------------------------------------- *)
(* Backend: the posts table                                               *)
(* ---------------------------------------------------------------------- *)

\* somebody creates a post; an open new-posts channel is sent the INSERT
insertPost ==
  /\ nextPostId <= MaxPosts
  /\ srvPosts' = <<nextPostId>> \o srvPosts
  /\ nextPostId' = nextPostId + 1
  /\ rtQueue' = (IF realtimeChannel = "open" THEN Append(rtQueue, nextPostId) ELSE rtQueue)
  /\ UNCHANGED <<feedVars, voteVars, srvVote, userId, alert, lifeVars>>

(* ---------------------------------------------------------------------- *)
(* The feed's specification                                               *)
(* ---------------------------------------------------------------------- *)

\* after construction and the first run of the effect: the initial
\* loadPosts(0, true) is awaiting its answer, the channel is open if signed in
InitFeedStore ==
  /\ posts = <<>>
  /\ isLoading = TRUE
  /\ isLoadingMore = FALSE
  /\ error = Null
  /\ hasMore = TRUE
  /\ page = 0
  /\ mounted = TRUE
  /\ realtimeChannel = (IF userId = NoUser THEN Null ELSE "open")
  /\ fetches = SetToBag({SentFetch(0, TRUE)})
  /\ viaRealtime = {}
  /\ rtQueue = <<>>

\* Post | null: no post, or the one post of a sequence of length 1
NoPost == <<>>

\* no useSinglePost instance is in use
NoSinglePost ==
  /\ spPostId = 1
  /\ spPost = NoPost
  /\ spIsLoading = FALSE
  /\ spError = Null
  /\ spMounted = FALSE
  /\ voteChannel = Null
  /\ spLoads = EmptyBag

\* the open channels of a feed whose ref is feedRef and a detail view whose
\* ref is voteRef
OpenChannels(feedRef, voteRef) ==
  [t \in Topics |-> IF (IF t = NewPosts THEN feedRef ELSE voteRef) = "open" THEN 1 ELSE 0]

InitVoteStore ==
  /\ isVoting = FALSE
  /\ optimisticVotes = [p \in PostIds |-> Undefined]
  /\ voteTimeouts = [p \in PostIds |-> 0]
  /\ timers = {}
  /\ calls = {}
  /\ graceTimers = <<>>
  /\ taps = 0
  /\ voteMounted = TRUE
  /\ alert = Null

InitFeed ==
  /\ last = Ran("mount", 0)
  /\ NoAuth
  /\ userId \in {NoUser, Viewer}
  /\ \E k \in 0..pageSize : srvPosts = NewestFirst(k) /\ nextPostId = k + 1
  /\ srvVote = [p \in PostIds |-> Null]
  /\ InitFeedStore
  /\ InitVoteStore
  /\ NoSinglePost
  /\ channels = OpenChannels(realtimeChannel, voteChannel)

NextFeed ==
  \/ refresh /\ last' = Other
  \/ loadMore /\ last' = Ran("loadMore", 0)
  \/ handleEndReached
       /\ last' = (IF hasMore /\ ~isLoadingMore /\ ~isLoading THEN Ran("loadMore", 0) ELSE Other)
  \/ \E f \in BagToSet(fetches) : getPostsAnswer(f) /\ last' = Other
  \/ \E f \in BagToSet(fetches) :
       loadPostsResume(f) /\ last' = Ran("loadPostsResume", [fetch |-> f, prev |-> posts])
  \/ handleNewPost /\ last' = Ran("handleNewPost", [id |-> Head(rtQueue), prev |-> posts])
  \/ unmount /\ last' = Other
  \/ insertPost /\ last' = Other

\* the feed as the repository drives it: PostFeed, the backend, the channel
SpecFeed == InitFeed /\ [][NextFeed]_vars

\* the feed with its two "internal methods for other hooks", which no code of
\* the repository calls
NextFeedOps ==
  \/ NextFeed
  \/ \E p \in VoteIds, u \in Patches : updatePost(p, u) /\ last' = Other
  \/ \E p \in PostIds : removePost(p) /\ last' = Other

SpecFeedOps == InitFeed /\ [][NextFeedOps]_vars

(* ---------------------------------------------------------------------- *)
(* useVote                                                                *)
(* ---------------------------------------------------------------------- *)

\* what a debounce timer sends when it fires
VoteOps == VoteKinds \cup {"remove"}

\* optimisticVotes[postId] !== undefined ? optimisticVotes[postId] : serverVote
effectiveVoteOf(ov, postId, serverVote) ==
  IF ov[postId] # Undefined THEN ov[postId] ELSE serverVote

getEffectiveVote(postId, serverVote) ==
  effectiveVoteOf(optimisticVotes, postId, serverVote)

\* delete updated[postId]
withoutVote(ov, postId) == [ov EXCEPT ![postId] = Undefined]

\* clearTimeout(voteTimeouts.current[postId]): a handle of a timer that has
\* fired, or no handle, cancels nothing
clearTimeoutOf(postId) == {t \in timers : t.id # voteTimeouts[postId]}

\* a state setter of a hook whose component is unmounted does nothing
setState(new, old) == IF voteMounted THEN new ELSE old

\* the part vote and removeVote share: cancel the timer the map holds for the
\* post, set the override, arm a new 300 ms timer and store its handle
debounce(postId, override, op) ==
  /\ taps < MaxTaps
  /\ timers' = clearTimeoutOf(postId) \cup {[id |-> taps + 1, post |-> postId, op |-> op]}
  /\ optimisticVotes' = [optimisticVotes EXCEPT ![postId] = override]
  /\ voteTimeouts' = [voteTimeouts EXCEPT ![postId] = taps + 1]
  /\ taps' = taps + 1
  /\ UNCHANGED <<isVoting, calls, graceTimers, voteMounted>>
  /\ UNCHANGED <<feedVars, serverVars, srvVote, userId, alert, lifeVars>>

\* faulty variant: vote does not look at userId
voteWithoutUser(postId, voteType) ==
  /\ voteMounted
  /\ debounce(postId, voteType, voteType)

\* vote(postId, voteType)
vote(postId, voteType) ==
  /\ voteMounted
  /\ IF userId = NoUser
     THEN UNCHANGED state
     ELSE debounce(postId, voteType, voteType)

\* removeVote(postId)
removeVote(postId) ==
  /\ voteMounted
  /\ IF userId = NoUser
     THEN UNCHANGED state
     ELSE debounce(postId, Null, "remove")

\* toggleVote(postId, currentVote, newVoteType)
toggleVote(postId, currentVote, newVoteType) ==
  IF currentVote = newVoteType
  THEN removeVote(postId)
  ELSE vote(postId, newVoteType)

\* timers of one delay fire in the order they were armed
debounceDue(t) == \A d \in timers : d.id >= t.id

\* a debounce timer fires: setIsVoting(true), then the call to the backend
timerFires(t) ==
  /\ t \in timers
  /\ debounceDue(t)
  /\ isVoting' = setState(TRUE, isVoting)
  /\ timers' = timers \ {t}
  /\ calls' = calls \cup {t}
  /\ UNCHANGED <<optimisticVotes, voteTimeouts, graceTimers, taps, voteMounted>>
  /\ UNCHANGED <<feedVars, serverVars, srvVote, userId, alert, lifeVars>>

\* the votes table after voteOnPost (upsert) or removeVote (delete)
votesAfter(c) ==
  [srvVote EXCEPT ![c.post] = IF c.op = "remove" THEN Null ELSE c.op]

\* the 1 s timer of the success branch of the submission c (its closure
\* deletes the override of c's post); it cannot fire before a 300 ms timer
\* that was already armed when it was armed
graceTimer(c) == [post |-> c.post, id |-> c.id, after |-> {t.id : t \in timers}]

\* faulty variant: the error branch leaves the override in place
callSettlesKeepsOverride(c, ok) ==
  /\ c \in calls
  /\ calls' = calls \ {c}
  /\ IF ok
     THEN /\ srvVote' = votesAfter(c)
          /\ graceTimers' = Append(graceTimers, graceTimer(c))
     ELSE UNCHANGED <<srvVote, graceTimers>>
  /\ isVoting' = setState(FALSE, isVoting)
  /\ voteTimeouts' = [voteTimeouts EXCEPT ![c.post] = 0]
  /\ UNCHANGED <<optimisticVotes, timers, taps, voteMounted>>
  /\ UNCHANGED <<feedVars, serverVars, userId, alert, lifeVars>>

\* faulty variant: the finally block does not reset isVoting
callSettlesKeepsVoting(c, ok) ==
  /\ c \in calls
  /\ calls' = calls \ {c}
  /\ IF ok
     THEN /\ srvVote' = votesAfter(c)
          /\ graceTimers' = Append(graceTimers, graceTimer(c))
          /\ UNCHANGED optimisticVotes
     ELSE /\ optimisticVotes' = setState(withoutVote(optimisticVotes, c.post), optimisticVotes)
          /\ UNCHANGED <<srvVote, graceTimers>>
  /\ voteTimeouts' = [voteTimeouts EXCEPT ![c.post] = 0]
  /\ UNCHANGED <<isVoting, timers, taps, voteMounted>>
  /\ UNCHANGED <<feedVars, serverVars, userId, alert, lifeVars>>

\* PostService.voteOnPost / removeVote returns and the timer callback resumes:
\* the error branch or the success branch, then the finally block
callSettles(c, ok) ==
  /\ c \in calls
  /\ calls' = calls \ {c}
  /\ IF ok
     THEN /\ srvVote' = votesAfter(c)
          /\ graceTimers' = Append(graceTimers, graceTimer(c))
          /\ UNCHANGED optimisticVotes
     ELSE /\ optimisticVotes' = setState(withoutVote(optimisticVotes, c.post), optimisticVotes)
          /\ UNCHANGED <<srvVote, graceTimers>>
  /\ isVoting' = setState(FALSE, isVoting)
  /\ voteTimeouts' = [voteTimeouts EXCEPT ![c.post] = 0]
  /\ UNCHANGED <<timers, taps, voteMounted>>
  /\ UNCHANGED <<feedVars, serverVars, userId, alert, lifeVars>>

graceDue(g) ==
  \A t \in timers : (DEBOUNCE_MS <= GRACE_MS) => t.id \notin g.after

\* faulty variant: the grace timer fires and leaves the override in place
graceFiresKeepsOverride ==
  /\ graceTimers # <<>>
  /\ graceDue(Head(graceTimers))
  /\ graceTimers' = Tail(graceTimers)
  /\ UNCHANGED <<isVoting, optimisticVotes, voteTimeouts, timers, calls, taps, voteMounted>>
  /\ UNCHANGED <<feedVars, serverVars, srvVote, userId, alert, lifeVars>>

\* the oldest grace timer fires: the override of its post is deleted
graceFires ==
  /\ graceTimers # <<>>
  /\ graceDue(Head(graceTimers))
  /\ optimisticVotes' = setState(withoutVote(optimisticVotes, Head(graceTimers).post),
                               optimisticVotes)
  /\ graceTimers' = Tail(graceTimers)
  /\ UNCHANGED <<isVoting, voteTimeouts, timers, calls, taps, voteMounted>>
  /\ UNCHANGED <<feedVars, serverVars, srvVote, userId, alert, lifeVars>>

\* clearOptimisticVote(postId)
clearOptimisticVote(postId) ==
  /\ voteMounted
  /\ optimisticVotes[postId] # Undefined
  /\ optimisticVotes' = withoutVote(optimisticVotes, postId)
  /\ UNCHANGED <<isVoting, voteTimeouts, timers, calls, graceTimers, taps, voteMounted>>
  /\ UNCHANGED <<feedVars, serverVars, srvVote, userId, alert, lifeVars>>

\* cleanup(): clear every timer the map holds, then empty the map
cleanup ==
  /\ voteMounted
  /\ \E p \in PostIds : voteTimeouts[p] # 0
  /\ timers' = {t \in timers : \A p \in PostIds : voteTimeouts[p] # t.id}
  /\ voteTimeouts' = [p \in PostIds |-> 0]
  /\ UNCHANGED <<isVoting, optimisticVotes, calls, graceTimers, taps, voteMounted>>
  /\ UNCHANGED <<feedVars, serverVars, srvVote, userId, alert, lifeVars>>

(* ---------------------------------------------------------------------- *)
(* PostCard                                                               *)
(* ---------------------------------------------------------------------- *)

\* the list's entry for a post id (the card's post prop)
PostOf(postId) == posts[CHOOSE i \in DOMAIN posts : posts[i].id = postId]

\* getEffectiveVote(post.id, post.user_vote || null)
effectiveVote(post) == getEffectiveVote(post.id, post.user_vote)

\* faulty variant: the count is raised for the override but never lowered for
\* the vote the override replaces
greenCountAddsOnly(post, ev) ==
  post.green_votes
    + (IF post.user_vote # "green" /\ ev = "green" THEN 1 ELSE 0)

greenCount(post, ev) ==
  post.green_votes
    - (IF post.user_vote = "green" /\ ev # "green" THEN 1 ELSE 0)
    + (IF post.user_vote # "green" /\ ev = "green" THEN 1 ELSE 0)

redCount(post, ev) ==
  post.red_votes
    - (IF post.user_vote = "red" /\ ev # "red" THEN 1 ELSE 0)
    + (IF post.user_vote # "red" /\ ev = "red" THEN 1 ELSE 0)

\* the titles of the two alerts of the card
LoginRequired == "Login Required"
VoteError == "Error"

\* if (!currentUserId) { Alert.alert('Login Required', ...); return }
rejectTap ==
  /\ alert' = LoginRequired
  /\ UNCHANGED <<feedVars, serverVars, voteVars, srvVote, userId, lifeVars>>

\* faulty variant: the card casts the tapped kind whatever the effective vote is
handleVoteAlwaysVotes(postId, voteType) ==
  /\ voteMounted
  /\ postId \in Ids(posts)
  /\ ~isVoting
  /\ IF userId = NoUser THEN rejectTap ELSE vote(postId, voteType)

\* handleVote(voteType) of the card of postId; the buttons are disabled
\* while isVoting
\* vote and removeVote return as soon as the timer is armed and never reject,
\* so the catch branch (Alert 'Error') is never entered
handleVote(postId, voteType) ==
  /\ voteMounted
  /\ postId \in Ids(posts)
  /\ ~isVoting
  /\ IF userId = NoUser
     THEN rejectTap
     ELSE IF effectiveVote(PostOf(postId)) = voteType
          THEN removeVote(postId)
          ELSE vote(postId, voteType)

\* the card leaves the screen; neither PostCard nor useVote has an effect with
\* a cleanup, and nothing calls cleanup()
unmountCard ==
  /\ voteMounted
  /\ voteMounted' = FALSE
  /\ UNCHANGED <<isVoting, optimisticVotes, voteTimeouts, timers, calls, graceTimers, taps>>
  /\ UNCHANGED <<feedVars, serverVars, srvVote, userId, alert, lifeVars>>

(* ---------------------------------------------------------------------- *)
(* The vote store's specification                                         *)
(* ---------------------------------------------------------------------- *)

\* usePosts once its initial loadPosts(0, true) has been answered and applied:
\* the list is the backend's first page.  The list is not refetched in this
\* specification, and nothing else writes its vote fields (usePosts subscribes
\* to new posts only and nothing calls updatePost).
LoadedFeedStore ==
  /\ posts = getPosts(userId, pageSize, 0)
  /\ isLoading = FALSE
  /\ isLoadingMore = FALSE
  /\ error = Null
  /\ hasMore = (Len(posts) = pageSize)
  /\ page = 0
  /\ mounted = TRUE
  /\ realtimeChannel = (IF userId = NoUser THEN Null ELSE "open")
  /\ fetches = EmptyBag
  /\ viaRealtime = {}
  /\ rtQueue = <<>>

\* the backend holds the posts of VoteIds; the viewer may have voted before on
\* those of VotedBefore
InitVote ==
  /\ last = Ran("mount", 0)
  /\ NoAuth
  /\ userId \in {NoUser, Viewer}
  /\ srvPosts = NewestFirst(Cardinality(VoteIds))
  /\ nextPostId = Cardinality(VoteIds) + 1
  /\ srvVote \in [PostIds -> ServerVotes]
  /\ \A p \in PostIds : (p \notin VotedBefore \/ userId = NoUser) => srvVote[p] = Null
  /\ LoadedFeedStore
  /\ InitVoteStore
  /\ NoSinglePost
  /\ channels = OpenChannels(realtimeChannel, voteChannel)

\* a call of vote or removeVote is told apart when nobody is signed in
Tapped(op, p) == IF userId = NoUser THEN Ran(op, p) ELSE Other

\* the steps the environment of the hook takes: a debounce timer fires, a call
\* to the backend returns, a grace timer fires
timerStep == \E t \in timers : timerFires(t) /\ last' = Other
settleStep ==
  \E c \in calls, ok \in BOOLEAN :
    callSettles(c, ok) /\ last' = (IF ok THEN Other ELSE Ran("callFails", c.post))
graceStep == graceFires /\ last' = Ran("graceFires", Head(graceTimers).post)

\* a tap on a vote button of the card of a post of the list
cardTap ==
  \E p \in VoteIds, k \in VoteKinds :
    handleVote(p, k)
      /\ last' = (IF userId = NoUser
                   THEN Ran("cardRejects", p)
                   ELSE IF effectiveVote(PostOf(p)) = k
                        THEN Ran("handleVote", [post |-> p, kind |-> k])
                        ELSE Other)

NextVote ==
  \/ \E p \in VoteIds, k \in VoteKinds : vote(p, k) /\ last' = Tapped("vote", p)
  \/ \E p \in VoteIds : removeVote(p) /\ last' = Tapped("removeVote", p)
  \/ \E p \in VoteIds, c \in ServerVotes, k \in VoteKinds :
       toggleVote(p, c, k) /\ last' = Other
  \/ cardTap
  \/ timerStep
  \/ settleStep
  \/ graceStep

\* the vote store as the repository drives it: PostCard, the timers, the backend
SpecVote == InitVote /\ [][NextVote]_vars

\* the scheduling of the vote store: an armed timer that is not cancelled
\* fires, a call to the backend returns (with or without an error), a grace
\* timer fires
FairVote ==
  /\ WF_vars(timerStep)
  /\ WF_vars(settleStep)
  /\ WF_vars(graceStep)

SpecVoteFair == SpecVote /\ FairVote

\* the vote store with the two functions it returns that no code of the
\* repository calls
NextVoteOps ==
  \/ NextVote
  \/ \E p \in VoteIds : clearOptimisticVote(p) /\ last' = Other
  \/ cleanup /\ last' = Other

SpecVoteOps == InitVote /\ [][NextVoteOps]_vars

\* the vote store of a card that can leave the screen
NextVoteLife ==
  \/ NextVote
  \/ unmountCard /\ last' = Ran("unmountCard", 0)

SpecVoteLife == InitVote /\ [][NextVoteLife]_vars

(* ---------------------------------------------------------------------- *)
(* useSinglePost                                                          *)
(* ---------------------------------------------------------------------- *)

\* PostService.getPosts(userId, 50, 0)
SinglePageLimit == 50

\* a getPosts request of loadPost that awaits its answer
SentLoad(uid, postId) ==
  [st |-> "sent", uid |-> uid, postId |-> postId, found |-> NoPost, err |-> Null]

\* posts?.find(p => p.id === postId) || null
foundPost(data, postId) ==
  IF postId \in Ids(data)
  THEN <<data[CHOOSE i \in DOMAIN data : data[i].id = postId]>>
  ELSE NoPost

\* loadPost of the closure (uid, postId) up to its await
loadPostCall(uid, postId) ==
  /\ BagCardinality(spLoads) < MaxFetches
  /\ spIsLoading' = TRUE
  /\ spError' = Null
  /\ spLoads' = BagAdd(spLoads, SentLoad(uid, postId))

\* the backend answers a request of loadPost
loadPostAnswer(l) ==
  /\ l.st = "sent"
  /\ \E ok \in QueryOutcomes :
       LET r == getPostsResult(l.uid, SinglePageLimit, 0, ok)
       IN spLoads' = BagAdd(BagRemove(spLoads, l),
                            [l EXCEPT !.st = "answered",
                                      !.found = foundPost(orEmpty(r), l.postId),
                                      !.err = r.error])
  /\ UNCHANGED <<spPostId, spPost, spIsLoading, spError, spMounted, voteChannel>>
  /\ UNCHANGED <<feedVars, serverVars, voteVars, srvVote, userId, alert, channels, authVars>>

\* loadPost after its await
loadPostResume(l) ==
  /\ l.st = "answered"
  /\ spLoads' = BagRemove(spLoads, l)
  /\ IF ~spMounted
     THEN UNCHANGED <<spPost, spIsLoading, spError>>
     ELSE /\ spIsLoading' = FALSE
          /\ IF l.err # Null
             THEN spError' = l.err /\ UNCHANGED spPost
             ELSE spPost' = l.found /\ UNCHANGED spError
  /\ UNCHANGED <<spPostId, spMounted, voteChannel>>
  /\ UNCHANGED <<feedVars, serverVars, voteVars, srvVote, userId, alert, channels, authVars>>

\* refresh of useSinglePost (loadPost itself)
singleRefresh ==
  /\ spMounted
  /\ loadPostCall(userId, spPostId)
  /\ UNCHANGED <<spPostId, spPost, spMounted, voteChannel>>
  /\ UNCHANGED <<feedVars, serverVars, voteVars, srvVote, userId, alert, channels, authVars>>

\* a votes row of the post changes and the open channel calls handleVoteUpdate
handleVoteUpdate ==
  /\ voteChannel = "open"
  /\ loadPostCall(userId, spPostId)
  /\ UNCHANGED <<spPostId, spPost, spMounted, voteChannel>>
  /\ UNCHANGED <<feedVars, serverVars, voteVars, srvVote, userId, alert, channels, authVars>>

\* updatePost(updates) of useSinglePost
singleUpdatePost(updates) ==
  /\ spMounted
  /\ spPost # NoPost
  /\ spPost' = <<mergePost(spPost[1], updates)>>
  /\ UNCHANGED <<spPostId, spIsLoading, spError, spMounted, voteChannel, spLoads>>
  /\ UNCHANGED <<feedVars, serverVars, voteVars, srvVote, userId, alert, channels, authVars>>

\* the effect runs again for (uid, postId): the cleanup of the previous run,
\* then mounted.current = true, loadPost() and a new subscription
singleEffectRerun(uid, postId) ==
  /\ loadPostCall(uid, postId)
  /\ spPostId' = postId
  /\ spMounted' = TRUE
  /\ voteChannel' = "open"
  /\ UNCHANGED spPost

\* the post-votes channels after that run
postVotesChannelsAfterRerun ==
  subscribed(unsubscribed(channels, PostVotes, voteChannel), PostVotes)

\* the detail view is given another post id
changePost(postId) ==
  /\ spMounted
  /\ postId # spPostId
  /\ singleEffectRerun(userId, postId)
  /\ channels' = postVotesChannelsAfterRerun
  /\ UNCHANGED <<feedVars, serverVars, voteVars, srvVote, userId, alert, authVars>>

\* the effect's cleanup: the detail view closes
singleUnmount ==
  /\ spMounted
  /\ spMounted' = FALSE
  /\ voteChannel' = afterCleanup(voteChannel)
  /\ channels' = unsubscribed(channels, PostVotes, voteChannel)
  /\ UNCHANGED <<spPostId, spPost, spIsLoading, spError, spLoads>>
  /\ UNCHANGED <<feedVars, serverVars, voteVars, srvVote, userId, alert, authVars>>

(* ---------------------------------------------------------------------- *)
(* The viewer changes                                                     *)
(* ---------------------------------------------------------------------- *)

\* user?.id changes: the effects of the mounted hooks that depend on it run
\* again in the same commit
changeViewer ==
  /\ mounted \/ spMounted
  /\ \E uid \in {NoUser, Viewer} \ {userId} :
       /\ userId' = uid
       /\ IF mounted
          THEN usePostsEffectRerun(uid)
          ELSE UNCHANGED <<feedVars, rtQueue>>
       /\ IF spMounted
          THEN singleEffectRerun(uid, spPostId)
          ELSE UNCHANGED singleVars
       /\ channels' =
            [t \in Topics |->
               IF t = NewPosts
               THEN IF mounted THEN newPostsChannelsAfterRerun(uid)[t] ELSE channels[t]
               ELSE IF spMounted THEN postVotesChannelsAfterRerun[t] ELSE channels[t]]
  /\ UNCHANGED <<srvPosts, nextPostId, voteVars, srvVote, alert, authVars>>

\* usePosts after its screen was closed and its requests were answered
ClosedFeedStore ==
  /\ posts = <<>>
  /\ isLoading = TRUE
  /\ isLoadingMore = FALSE
  /\ error = Null
  /\ hasMore = TRUE
  /\ page = 0
  /\ mounted = FALSE
  /\ realtimeChannel = (IF userId = NoUser THEN Null ELSE "closed")
  /\ fetches = EmptyBag
  /\ viaRealtime = {}
  /\ rtQueue = <<>>

\* useSinglePost after construction and the first run of its effect
InitSinglePost ==
  /\ spPostId \in VoteIds
  /\ spPost = NoPost
  /\ spIsLoading = TRUE
  /\ spError = Null
  /\ spMounted = TRUE
  /\ voteChannel = "open"
  /\ spLoads = SetToBag({SentLoad(userId, spPostId)})

\* the feed screen is open, or the detail view of one post
InitLife ==
  /\ last = Ran("mount", 0)
  /\ NoAuth
  /\ userId \in {NoUser, Viewer}
  /\ \E k \in 0..pageSize : srvPosts = NewestFirst(k) /\ nextPostId = k + 1
  /\ srvVote = [p \in PostIds |-> Null]
  /\ InitVoteStore
  /\ \/ InitFeedStore /\ NoSinglePost
     \/ ClosedFeedStore /\ InitSinglePost
  /\ channels = OpenChannels(realtimeChannel, voteChannel)

NextLife ==
  \/ \E f \in BagToSet(fetches) : getPostsAnswer(f) /\ last' = Other
  \/ \E f \in BagToSet(fetches) :
       loadPostsResume(f) /\ last' = Ran("loadPostsResume", [fetch |-> f, prev |-> posts])
  \/ handleNewPost /\ last' = Ran("handleNewPost", [id |-> Head(rtQueue), prev |-> posts])
  \/ unmount /\ last' = Other
  \/ insertPost /\ last' = Other
  \/ changeViewer /\ last' = Ran("changeViewer", 0)
  \/ \E l \in BagToSet(spLoads) : loadPostAnswer(l) /\ last' = Other
  \/ \E l \in BagToSet(spLoads) : loadPostResume(l) /\ last' = Other
  \/ singleRefresh /\ last' = Other
  \/ handleVoteUpdate /\ last' = Other
  \/ \E u \in Patches : singleUpdatePost(u) /\ last' = Other
  \/ \E p \in VoteIds : changePost(p) /\ last' = Ran("changePost", 0)
  \/ singleUnmount /\ last' = Other

\* the two hooks with realtime subscriptions over mounts, viewer changes and
\* unmounts; the requests are those the effects make themselves
SpecLife == InitLife /\ [][NextLife]_vars

(* ---------------------------------------------------------------------- *)
(* PostService.getPosts under query failures                              *)
(* ---------------------------------------------------------------------- *)

\* the backend holds up to MaxPosts posts and the viewer's earlier votes
InitGetPosts ==
  /\ last = Ran("mount", 0)
  /\ NoAuth
  /\ userId \in {NoUser, Viewer}
  /\ \E k \in 0..MaxPosts : srvPosts = NewestFirst(k) /\ nextPostId = k + 1
  /\ srvVote \in [PostIds -> ServerVotes]
  /\ \A p \in PostIds : p \notin VotedBefore => srvVote[p] = Null
  /\ InitFeedStore
  /\ InitVoteStore
  /\ NoSinglePost
  /\ channels = OpenChannels(realtimeChannel, voteChannel)

\* the requests of the feed and their answers, each told with the outcomes
\* of its queries and what getPosts returned
NextGetPosts ==
  \/ refresh /\ last' = Other
  \/ loadMore /\ last' = Other
  \/ \E f \in BagToSet(fetches), ok \in QueryOutcomes :
       /\ getPostsAnswerWith(f, ok)
       /\ last' = Ran("getPosts",
                      [uid |-> f.uid, offset |-> f.pageNum * pageSize, ok |-> ok,
                       result |-> getPostsResult(f.uid, pageSize, f.pageNum * pageSize, ok)])
  \/ \E f \in BagToSet(fetches) : loadPostsResume(f) /\ last' = Other

SpecGetPosts == InitGetPosts /\ [][NextGetPosts]_vars

(* ---------------------------------------------------------------------- *)
(* The cards of a feed as it loads                                        *)
(* ---------------------------------------------------------------------- *)

\* the feed screen opens on a backend that holds the viewer's earlier votes;
\* the first page is fetched (each query of getPosts succeeds or fails), new
\* posts arrive over the channel, and the viewer taps the cards
InitCard ==
  /\ last = Ran("mount", 0)
  /\ NoAuth
  /\ userId \in {NoUser, Viewer}
  /\ \E k \in 0..pageSize : srvPosts = NewestFirst(k) /\ nextPostId = k + 1
  /\ srvVote \in [PostIds -> ServerVotes]
  /\ \A p \in PostIds : (p \notin VotedBefore \/ userId = NoUser) => srvVote[p] = Null
  /\ InitFeedStore
  /\ InitVoteStore
  /\ NoSinglePost
  /\ channels = OpenChannels(realtimeChannel, voteChannel)

NextCard ==
  \/ \E f \in BagToSet(fetches) : getPostsAnswer(f) /\ last' = Other
  \/ \E f \in BagToSet(fetches) : loadPostsResume(f) /\ last' = Other
  \/ insertPost /\ last' = Other
  \/ handleNewPost /\ last' = Other
  \/ cardTap
  \/ timerStep
  \/ settleStep
  \/ graceStep

SpecCard == InitCard /\ [][NextCard]_vars

(* ---------------------------------------------------------------------- *)
(* useAuth                                                                *)
(* ---------------------------------------------------------------------- *)

\* the awaits of the hook's effect: getSession and getProfile of
\* initializeAuth, getProfile of the onAuthStateChange handler
GetSession == "getSession"
InitProfile == "initializeAuth.getProfile"
HandlerProfile == "onAuthStateChange.getProfile"

\* the row of the profiles table of user u
ProfileOf(u) == [id |-> u, status |-> srvStatus[u]]

\* an await of instance i in flight; stale tells that the effect that made it
\* has been cleaned up since (its `mounted` is false)
SentTask(i, kind, uid) ==
  [inst |-> i, kind |-> kind, uid |-> uid, st |-> "sent", err |-> Null,
   user |-> Null, stale |-> FALSE]

\* initializeAuth after `await AuthService.getSession()`: the state of the
\* instance, the await it goes on to, and the setters it has called
resumeGetSession(a, t) ==
  LET m == ~t.stale
  IN IF t.err # Null
     THEN [a |-> [a EXCEPT !.error = t.err, !.isLoading = IF m THEN FALSE ELSE @],
           spawn |-> {},
           sets |-> {"error"} \cup (IF m THEN {"isLoading"} ELSE {})]
     ELSE IF t.user # Null /\ m
          THEN [a |-> [a EXCEPT !.user = t.user],
                spawn |-> {SentTask(t.inst, InitProfile, t.user)},
                sets |-> {"user"}]
          ELSE [a |-> [a EXCEPT !.isLoading = IF m THEN FALSE ELSE @],
                spawn |-> {},
                sets |-> IF m THEN {"isLoading"} ELSE {}]

\* initializeAuth after `await ProfileService.getProfile(authUser.id)`
resumeInitProfile(a, t, ok) ==
  LET m == ~t.stale
  IN IF ~ok
     THEN [a |-> [a EXCEPT !.error = "Failed to load profile", !.isLoading = IF m THEN FALSE ELSE @],
           spawn |-> {},
           sets |-> {"error"} \cup (IF m THEN {"isLoading"} ELSE {})]
     ELSE IF m
          THEN [a |-> [a EXCEPT !.profile = ProfileOf(t.uid), !.isLoading = FALSE],
                spawn |-> {},
                sets |-> {"profile", "isLoading"}]
          ELSE [a |-> a, spawn |-> {}, sets |-> {}]

\* the onAuthStateChange handler after `await ProfileService.getProfile(...)`:
\* neither the branches nor the finally block look at `mounted`
resumeHandlerProfile(a, t, ok) ==
  IF ~ok
  THEN [a |-> [a EXCEPT !.error = "Failed to load profile", !.isLoading = FALSE],
        spawn |-> {}, sets |-> {"error", "isLoading"}]
  ELSE [a |-> [a EXCEPT !.profile = ProfileOf(t.uid), !.isLoading = FALSE],
        spawn |-> {}, sets |-> {"profile", "isLoading"}]

\* the continuation of await t
resumed(a, t, ok) ==
  IF t.kind = GetSession THEN resumeGetSession(a, t)
  ELSE IF t.kind = InitProfile THEN resumeInitProfile(a, t, ok)
  ELSE resumeHandlerProfile(a, t, ok)

\* the handler up to its first await, on a mounted instance
onSignedIn(a, u) == [a EXCEPT !.user = u, !.error = Null]
onSignedOut(a) ==
  [a EXCEPT !.user = Null, !.profile = NoProfile, !.error = Null, !.isLoading = FALSE]

(* ---------------------------------------------------------------------- *)
(* App, HomeScreen, PostFeed: what is rendered                            *)
(* ---------------------------------------------------------------------- *)

\* App: past the loading screen, `isAuthenticated && user ? <HomeScreen />`
showsHome(a, ready) == ready /\ ~a[App].isLoading /\ a[App].user # Null

\* faulty variant: any loaded profile counts as verified
isVerifiedAnyStatus(a) == a[HomeScreen].profile # NoProfile

\* HomeScreen: profile?.verification_status === 'approved'
isVerified(a) == a[HomeScreen].profile.status = Approved

\* the instances after React has rendered the states a: HomeScreen and
\* PostFeed are mounted (with a fresh instance of the hook) or unmounted
rendered(a, ready) ==
  LET home == showsHome(a, ready)
      a1 == [a EXCEPT ![HomeScreen] =
               IF home THEN (IF a[HomeScreen].mounted THEN @ ELSE FreshAuth) ELSE DeadAuth]
      feed == home /\ isVerified(a1)
  IN [a1 EXCEPT ![PostFeed] =
        IF feed THEN (IF a[PostFeed].mounted THEN @ ELSE FreshAuth) ELSE DeadAuth]

\* the awaits after that render: those of an unmounted instance are stale, a
\* newly mounted instance has started initializeAuth
tasksAfter(tasks, new) ==
  {[t EXCEPT !.stale = @ \/ (auth[t.inst].mounted /\ ~new[t.inst].mounted)] : t \in tasks}
    \cup {SentTask(i, GetSession, Null) :
            i \in {j \in Insts : new[j].mounted /\ ~auth[j].mounted}}

\* PostFeed is mounted: usePosts(undefined), since the user of its own
\* instance of useAuth is null at first
mountFeed ==
  /\ userId' = NoUser
  /\ posts' = <<>>
  /\ isLoading' = TRUE
  /\ isLoadingMore' = FALSE
  /\ error' = Null
  /\ hasMore' = TRUE
  /\ page' = 0
  /\ mounted' = TRUE
  /\ realtimeChannel' = Null
  /\ fetches' = SetToBag({SentFetchBy(NoUser, 0, TRUE)})
  /\ viaRealtime' = {}
  /\ rtQueue' = <<>>
  /\ UNCHANGED channels

\* PostFeed is unmounted: the cleanup of usePosts; the state of the instance
\* is gone and its requests resume on mounted.current = false
closeFeed ==
  /\ userId' = NoUser
  /\ posts' = <<>>
  /\ isLoading' = TRUE
  /\ isLoadingMore' = FALSE
  /\ error' = Null
  /\ hasMore' = TRUE
  /\ page' = 0
  /\ mounted' = FALSE
  /\ realtimeChannel' = afterCleanup(realtimeChannel)
  /\ channels' = unsubscribed(channels, NewPosts, realtimeChannel)
  /\ fetches' = EmptyBag
  /\ viaRealtime' = {}
  /\ rtQueue' = <<>>

\* usePosts follows PostFeed and the user of PostFeed's instance of useAuth
feedFollows(new) ==
  LET id == IF new[PostFeed].user = Null THEN NoUser ELSE new[PostFeed].user
  IN IF new[PostFeed].mounted /\ ~auth[PostFeed].mounted THEN mountFeed
     ELSE IF auth[PostFeed].mounted /\ ~new[PostFeed].mounted THEN closeFeed
     ELSE IF new[PostFeed].mounted /\ id # userId
          THEN /\ userId' = id
               /\ usePostsEffectRerun(id)
               /\ channels' = newPostsChannelsAfterRerun(id)
          ELSE UNCHANGED <<feedVars, rtQueue, userId, channels>>

\* the states a and the awaits tasks are committed and rendered
commit(a, tasks, ready) ==
  /\ auth' = rendered(a, ready)
  /\ authTasks' = tasksAfter(tasks, rendered(a, ready))
  /\ appReady' = ready
  /\ feedFollows(rendered(a, ready))
  /\ UNCHANGED <<srvPosts, nextPostId, voteVars, srvVote, alert, singleVars, srvStatus>>

\* App's initializeApp: the 1 s timer ends
appBecomesReady ==
  /\ ~appReady
  /\ commit(auth, authTasks, TRUE)
  /\ UNCHANGED <<session, authEvents>>

\* the auth client answers getSession with the session it holds, or fails
getSessionAnswer(t) ==
  /\ t \in authTasks
  /\ t.kind = GetSession
  /\ t.st = "sent"
  /\ \E ok \in BOOLEAN :
       authTasks' = (authTasks \ {t}) \cup
         {[t EXCEPT !.st = "answered",
                    !.err = IF ok THEN Null ELSE "Failed to get session",
                    !.user = IF ok THEN session ELSE Null]}
  /\ UNCHANGED <<auth, session, srvStatus, authEvents, appReady>>
  /\ UNCHANGED <<feedVars, serverVars, voteVars, srvVote, userId, alert, channels, singleVars>>

\* an await of the hook resumes: getSession with its answer, getProfile with
\* the profile row or an error.  The setters of a stale await reach a
\* component that is gone and change no state.
authResume(t, ok) ==
  /\ t \in authTasks
  /\ t.kind = GetSession => (t.st = "answered" /\ ok = (t.err = Null))
  /\ LET r == resumed(auth[t.inst], t, ok)
     IN commit(IF t.stale THEN auth ELSE [auth EXCEPT ![t.inst] = r.a],
               (authTasks \ {t}) \cup (IF t.stale THEN {} ELSE r.spawn),
               appReady)
  /\ UNCHANGED <<session, authEvents>>

\* somebody signs in (verifyOtp): SIGNED_IN reaches every listener
signIn(u) ==
  /\ session = Null
  /\ authEvents < MaxAuthEvents
  /\ session' = u
  /\ authEvents' = authEvents + 1
  /\ commit([i \in Insts |-> IF auth[i].mounted THEN onSignedIn(auth[i], u) ELSE auth[i]],
            authTasks \cup {SentTask(i, HandlerProfile, u) : i \in {j \in Insts : auth[j].mounted}},
            appReady)

\* the session ends (signOut, or the client gives it up): SIGNED_OUT
signOut ==
  /\ session # Null
  /\ authEvents < MaxAuthEvents
  /\ session' = Null
  /\ authEvents' = authEvents + 1
  /\ commit([i \in Insts |-> IF auth[i].mounted THEN onSignedOut(auth[i]) ELSE auth[i]],
            authTasks, appReady)

\* autoRefreshToken: TOKEN_REFRESHED; of the handler only the finally block acts
tokenRefreshed ==
  /\ session # Null
  /\ authEvents < MaxAuthEvents
  /\ authEvents' = authEvents + 1
  /\ commit([i \in Insts |-> IF auth[i].mounted THEN [auth[i] EXCEPT !.isLoading = FALSE] ELSE auth[i]],
            authTasks, appReady)
  /\ UNCHANGED session

\* the app starts: App is rendered with its loading screen, its instance of
\* useAuth has started initializeAuth; the device may hold a session.  The
\* code tells 'approved' from the other statuses only, so one user is approved
\* or pending and the other approved or rejected.
InitApp ==
  /\ last = Ran("mount", 0)
  /\ auth = [i \in Insts |-> IF i = App THEN FreshAuth ELSE DeadAuth]
  /\ authTasks = {SentTask(App, GetSession, Null)}
  /\ session \in Users \cup {Null}
  /\ srvStatus \in [Users -> {"pending", Approved, "rejected"}]
  /\ srvStatus["u1"] # "rejected"
  /\ srvStatus["u2"] # "pending"
  /\ authEvents = 0
  /\ appReady = FALSE
  /\ userId = NoUser
  /\ srvPosts = <<>>
  /\ nextPostId = 1
  /\ srvVote = [p \in PostIds |-> Null]
  /\ ClosedFeedStore
  /\ InitVoteStore
  /\ NoSinglePost
  /\ channels = OpenChannels(realtimeChannel, voteChannel)

NextApp ==
  \/ appBecomesReady /\ last' = Other
  \/ \E t \in authTasks : getSessionAnswer(t) /\ last' = Other
  \/ \E t \in authTasks, ok \in BOOLEAN :
       authResume(t, ok)
         /\ last' = Ran("authResume", [stale |-> t.stale,
                                         sets |-> resumed(auth[t.inst], t, ok).sets])
  \/ \E u \in Users : signIn(u) /\ last' = Other
  \/ signOut /\ last' = Other
  \/ tokenRefreshed /\ last' = Other

SpecApp == InitApp /\ [][NextApp]_vars

(* ---------------------------------------------------------------------- *)
(* Properties                                                             *)
(* ---------------------------------------------------------------------- *)

\* the timers, calls and grace timers of a post
TimersOf(p) == {t \in timers : t.post = p}
CallsOf(p) == {c \in calls : c.post = p}
GraceOf(p) == {i \in DOMAIN graceTimers : graceTimers[i].post = p}

\* C1: a tap that arrives before the timer of the previous tap on the same
\* post has fired supersedes it, so that only the last tap of such a run of
\* taps is sent: no post ever has two armed debounce timers.
C1_OnlyLastTapOfBurstIsSent ==
  \A p \in PostIds : Cardinality(TimersOf(p)) <= 1

\* C2: at most one voteOnPost / removeVote call for the same post id is in
\* flight at any time (a tap made during a submission is sent only after it
\* has resolved).
C2_OneCallInFlightPerPost ==
  \A p \in PostIds : Cardinality(CallsOf(p)) <= 1

\* C3: a tap on a card that names the post's effective vote (the override if
\* there is one, else the server-reported vote) is a removal: right after it
\* the override is null and the timer armed for the tap sends removeVote, not
\* voteOnPost with the tapped kind.
C3_TapOnEffectiveVoteRemoves ==
  (last.op = "handleVote" /\ userId # NoUser) =>
    /\ optimisticVotes[last.arg.post] = Null
    /\ \E t \in timers : t.id = taps /\ t.post = last.arg.post /\ t.op = "remove"
    /\ \A t \in timers : t.id = taps => t.op # last.arg.kind

\* C3, witness: the card of a post whose server-reported vote is green was
\* tapped on green
C3_Witness ==
  /\ last.op = "handleVote"
  /\ userId # NoUser
  /\ last.arg.kind = "green"
  /\ PostOf(last.arg.post).user_vote = "green"
  /\ optimisticVotes[last.arg.post] = Null

\* C4: when a submission fails, the override of its post is removed entirely:
\* right after, getEffectiveVote returns the server vote it is given, and the
\* card shows the vote the list reports for the post.
C4_FailureRevertsToServerVote ==
  (last.op = "callFails") =>
    /\ optimisticVotes[last.arg] = Undefined
    /\ \A sv \in ServerVotes : getEffectiveVote(last.arg, sv) = sv
    /\ last.arg \in Ids(posts) =>
         effectiveVote(PostOf(last.arg)) = PostOf(last.arg).user_vote

\* C4, witness: a submission for a post the viewer had voted green on failed,
\* and the backend still holds that vote
C4_Witness ==
  /\ last.op = "callFails"
  /\ last.arg \in Ids(posts)
  /\ PostOf(last.arg).user_vote = "green"
  /\ srvVote[last.arg] = "green"
  /\ effectiveVote(PostOf(last.arg)) = "green"

C6_RealtimePostsFirst ==
  \A i, j \in DOMAIN posts :
    (i < j /\ posts[j].id \in viaRealtime) => posts[i].id \in viaRealtime

\* C6, witness: a loadMore page has just been appended to a list that already
\* held a realtime-inserted post
C6_Witness ==
  /\ last.op = "loadPostsResume"
  /\ mounted
  /\ last.arg.fetch.pageNum >= 1
  /\ last.arg.fetch.err = Null
  /\ Ids(last.arg.prev) \cap viaRealtime # {}
  /\ Ids(last.arg.fetch.data) \ Ids(last.arg.prev) # {}

\* C7: when a page-0 fetch (refresh, initial load) succeeds, the list becomes
\* exactly the returned page, the cursor 0 and hasMore (length = pageSize).
C7_RefreshReplacesList ==
  (last.op = "loadPostsResume" /\ mounted
     /\ last.arg.fetch.pageNum = 0 /\ last.arg.fetch.err = Null) =>
    /\ posts = last.arg.fetch.data
    /\ page = 0
    /\ hasMore = (Len(last.arg.fetch.data) = pageSize)

\* C7, witness: a refresh has just dropped a post that was in the list and is
\* not in the new first page
C7_Witness ==
  /\ last.op = "loadPostsResume"
  /\ mounted
  /\ last.arg.fetch.pageNum = 0
  /\ last.arg.fetch.err = Null
  /\ Ids(last.arg.prev) \ Ids(last.arg.fetch.data) # {}
  /\ Ids(last.arg.prev) \cap Ids(posts) # Ids(last.arg.prev)

\* C8: loadMore() called while hasMore is false or while a load is in flight
\* issues no request and leaves the list, the cursor, hasMore and the loading
\* flags as they are.
C8_LoadMoreIsNoOpWhileLoading ==
  [][(last'.op = "loadMore" /\ (~hasMore \/ fetches # EmptyBag)) =>
       UNCHANGED <<posts, page, hasMore, isLoading, isLoadingMore, error, fetches>>]_vars

\* C9: a realtime insert of an id the list holds leaves the list as it is; one
\* of an absent id puts the post at index 0 before the previous entries; a
\* second delivery of the same insert changes nothing.
C9_RealtimeInsert ==
  /\ (last.op = "handleNewPost" /\ mounted) =>
       IF last.arg.id \in Ids(last.arg.prev)
       THEN posts = last.arg.prev
       ELSE /\ posts # <<>>
            /\ posts[1].id = last.arg.id
            /\ Tail(posts) = last.arg.prev
  /\ \A p \in PostIds :
       withNewPost(withNewPost(posts, RealtimeRow(p)), RealtimeRow(p))
         = withNewPost(posts, RealtimeRow(p))

\* C9, witness: the insert of a post that a fetch had already brought into a
\* list of two posts has just been delivered
C9_Witness ==
  /\ last.op = "handleNewPost"
  /\ mounted
  /\ Len(last.arg.prev) = 2
  /\ last.arg.id \in Ids(last.arg.prev)
  /\ last.arg.id \notin viaRealtime

\* nothing of the vote store is pending for the post
Settled(p) ==
  /\ optimisticVotes[p] = Undefined
  /\ TimersOf(p) = {}
  /\ CallsOf(p) = {}
  /\ GraceOf(p) = {}

\* C10: once a submission has succeeded and the grace timer has cleared the
\* override, the card shows the backend's state after the vote: the viewer's
\* vote and the green and red counts getPosts would now report.
C10_CardShowsServerStateAfterGrace ==
  (last.op = "graceFires" /\ last.arg \in Ids(posts) /\ Settled(last.arg)) =>
    LET post == PostOf(last.arg)
        now == PostWithVotes(userId, last.arg)
    IN /\ effectiveVote(post) = now.user_vote
       /\ greenCount(post, effectiveVote(post)) = now.green_votes
       /\ redCount(post, effectiveVote(post)) = now.red_votes

\* C11: once the card that uses useVote has left the screen, no voteOnPost /
\* removeVote call is sent any more: a debounce timer that was pending at the
\* unmount is cancelled and never fires.
C11_NoCallAfterUnmount ==
  [][~voteMounted => calls' \subseteq calls]_vars

\* C12: a posts request made before the effect of usePosts was torn down
\* (unmount, or a re-run because the viewer changed) changes nothing of the
\* store when it resolves after the teardown: not the list, the cursor,
\* hasMore, the error or the loading flags.
C12_StaleFetchIsDiscarded ==
  [][(last'.op = "loadPostsResume" /\ last'.arg.fetch.stale) =>
       UNCHANGED <<posts, page, hasMore, error, isLoading, isLoadingMore>>]_vars

\* C13: each hook has at most one open realtime channel at any time, and none
\* once its effect has been torn down, over mounts, viewer changes, post
\* changes and unmounts.
C13_SubscriptionsAreClosed ==
  /\ \A t \in Topics : channels[t] <= 1
  /\ ~mounted => channels[NewPosts] = 0
  /\ ~spMounted => channels[PostVotes] = 0
  /\ channels[NewPosts] = 1 => realtimeChannel = "open"
  /\ channels[PostVotes] = 1 => voteChannel = "open"

\* C13, witness: the viewer signed in while the feed was open, and the effect
\* ran again and subscribed
C13_Witness ==
  /\ last.op = "changeViewer"
  /\ mounted
  /\ userId = Viewer
  /\ realtimeChannel = "open"
  /\ channels[NewPosts] = 1

\* C14: without a signed-in user, vote() and removeVote() set no override,
\* arm no timer and send no call, and the card answers a tap with its
\* "Login Required" alert.
C14_NoUserNoVote ==
  /\ userId = NoUser =>
       /\ timers = {} /\ calls = {} /\ graceTimers = <<>> /\ taps = 0
       /\ \A p \in PostIds : optimisticVotes[p] = Undefined /\ voteTimeouts[p] = 0
       /\ srvVote = [p \in PostIds |-> Null]
  /\ last.op = "cardRejects" => alert = LoginRequired

\* C14, witness: vote or removeVote has just been called with nobody signed in
C14_Witness ==
  /\ userId = NoUser
  /\ last.op \in {"vote", "removeVote"}

\* C15: a failed loadMore leaves the list, the cursor and hasMore as they
\* were, sets the error and resets isLoadingMore; with a non-empty list the
\* feed does not render its error state.
C15_FailedLoadMoreKeepsList ==
  [][(last'.op = "loadPostsResume" /\ mounted
        /\ last'.arg.fetch.pageNum >= 1 /\ last'.arg.fetch.err # Null) =>
       /\ posts' = posts
       /\ page' = page
       /\ hasMore' = hasMore
       /\ error' = last'.arg.fetch.err
       /\ ~isLoadingMore'
       /\ showsErrorState' = (posts = <<>>)]_vars

\* C15, witness: a loadMore has just failed on a list that holds posts
C15_Witness ==
  /\ last.op = "loadPostsResume"
  /\ mounted
  /\ last.arg.fetch.pageNum >= 1
  /\ last.arg.fetch.err # Null
  /\ posts # <<>>
  /\ error # Null
  /\ ~showsErrorState

\* the requests of loadPosts in flight for page 0 / for a later page
RefreshesInFlight == {f \in BagToSet(fetches) : f.pageNum = 0}
LoadMoresInFlight == {f \in BagToSet(fetches) : f.pageNum >= 1}
CopiesOf(fs) == BagCardinality([f \in fs |-> CopiesIn(f, fetches)])

\* C16: at most one refresh (page 0) request and at most one loadMore request
\* is in flight at any time.
C16_NoReentrantLoad ==
  /\ CopiesOf(RefreshesInFlight) <= 1
  /\ CopiesOf(LoadMoresInFlight) <= 1

\* C17: when a submission fails, the card shows its error alert for the tap.
C17_FailureIsShown ==
  last.op = "callFails" => alert = VoteError

\* C18: getPosts fails the page exactly when its posts query fails; otherwise
\* it returns the rows of the page in order, with the counts of the votes
\* table (0 and 0 if the votes query failed) and the viewer's vote (none if
\* the viewer's-votes query failed), and the request of the hook gets that
\* answer.
C18_EnrichmentFailureKeepsPage ==
  last.op = "getPosts" =>
    LET a == last.arg
        rows == RangeOf(srvPosts, a.offset, pageSize)
    IN /\ a.ok.posts = (a.result.error = Null)
       /\ a.ok.posts =>
            /\ Len(a.result.data) = Len(rows)
            /\ \A i \in DOMAIN rows :
                 LET post == a.result.data[i]
                 IN /\ post.id = rows[i]
                    /\ post.green_votes = (IF a.ok.votes THEN VotesOfKind(rows[i], "green") ELSE 0)
                    /\ post.red_votes = (IF a.ok.votes THEN VotesOfKind(rows[i], "red") ELSE 0)
                    /\ post.user_vote = (IF a.ok.userVotes /\ a.uid # NoUser
                                          THEN srvVote[rows[i]] ELSE Null)
       /\ \E f \in BagToSet(fetches) :
            /\ f.st = "answered"
            /\ f.err = a.result.error
            /\ a.ok.posts => f.data = a.result.data

\* C18, witness: both enrichment queries failed for a page with a post that
\* has votes and the viewer's vote
C18_Witness ==
  /\ last.op = "getPosts"
  /\ last.arg.ok = [posts |-> TRUE, votes |-> FALSE, userVotes |-> FALSE]
  /\ last.arg.uid = Viewer
  /\ \E i \in DOMAIN last.arg.result.data :
       /\ srvVote[last.arg.result.data[i].id] # Null
       /\ VotesOfKind(last.arg.result.data[i].id, "green") > 0

\* C19: isVoting is true only while a call of the instance is in flight.
C19_VotingImpliesCallInFlight ==
  isVoting => calls # {}

\* C19, witness: a call is in flight, isVoting is set, and another tap waits
C19_Witness ==
  /\ isVoting
  /\ calls # {}
  /\ timers # {}

\* C20: while a page-0 request is in flight isLoading is true, and while a
\* loadMore request is in flight isLoadingMore is true.
C20_FlagsFollowTheirFetch ==
  mounted =>
    /\ RefreshesInFlight # {} => isLoading
    /\ LoadMoresInFlight # {} => isLoadingMore

\* C21: every override is cleared in the end: once a post has an override,
\* given that armed timers fire and calls to the backend return, a state
\* follows in which the post has none, so that its effective vote is the
\* server-reported one.
C21_OverrideIsEventuallyCleared ==
  \A p \in VoteIds :
    (optimisticVotes[p] # Undefined) ~> (optimisticVotes[p] = Undefined)

\* C21, witness: the grace timer of a successful submission has just cleared
\* the last override of its post, and nothing of the post is pending
C21_Witness ==
  /\ last.op = "graceFires"
  /\ Settled(last.arg)
  /\ srvVote[last.arg] # Null
  /\ taps >= 2

\* the taps on post p whose submission has not settled yet: an armed timer, a
\* call in flight or a pending grace timer; the id is the number of the tap
PendingTaps(p) ==
  {t.id : t \in TimersOf(p)} \cup {c.id : c \in CallsOf(p)}
    \cup {graceTimers[i].id : i \in GraceOf(p)}

\* the tap whose submission settles in the step: the call that returns, or
\* else the grace timer that fires
SettlingTap ==
  IF calls' # calls
  THEN (CHOOSE c \in calls \ calls' : TRUE).id
  ELSE Head(graceTimers).id

\* C22: the override of a post is removed only by the settlement of the
\* submission of the tap that set it (the last tap on the post), never by the
\* failure or the grace timer of an earlier one, and the finally block of a
\* submission removes from the map no timer handle but its own.
C22_OnlyOwnSettlementClears ==
  [][\A p \in VoteIds :
       /\ (optimisticVotes[p] # Undefined /\ optimisticVotes'[p] = Undefined) =>
            \A i \in PendingTaps(p) : i <= SettlingTap
       /\ (voteTimeouts[p] # 0 /\ voteTimeouts'[p] = 0) =>
            voteTimeouts[p] = SettlingTap]_vars

\* the votes of one kind the backend would count for post p if the viewer's
\* vote were v and nobody else's vote changed
CountWithViewerVote(p, kind, v) ==
  (IF kind = "green" THEN OtherGreen(p) ELSE OtherRed(p)) + (IF v = kind THEN 1 ELSE 0)

shownGreen(post) == greenCount(post, effectiveVote(post))
shownRed(post) == redCount(post, effectiveVote(post))

\* C24: the green and red counts on a card are never negative, whatever row
\* getPosts or a realtime insert delivered and whatever the override is.
C24_CountsAreNonNegative ==
  \A i \in DOMAIN posts : shownGreen(posts[i]) >= 0 /\ shownRed(posts[i]) >= 0

\* C26: whenever a voteOnPost / removeVote call of the instance is in flight,
\* isVoting is true.
C26_CallInFlightImpliesVoting ==
  calls # {} => isVoting

\* the ids of a list of posts, in order
IdsOf(s) == [i \in DOMAIN s |-> s[i].id]

\* C27: no page is skipped: once the store holds a result (the list is not
\* empty or the cursor is not 0), with the cursor at k the list is the posts
\* of pages 0..k of the backend, in order.
C27_NoPageSkipped ==
  (mounted /\ (page # 0 \/ posts # <<>>)) =>
    IdsOf(posts) = RangeOf(srvPosts, 0, (page + 1) * pageSize)

\* C29: a post that the channel has just delivered into the list, and that
\* the backend still holds, is in the list after the result of a request that
\* was in flight at the delivery has been applied.
C29_RealtimePostSurvivesRefresh ==
  [][(/\ last.op = "handleNewPost"
      /\ last.arg.id \in Ids(posts)
      /\ last.arg.id \in Range(srvPosts)
      /\ last'.op = "loadPostsResume") =>
       last.arg.id \in Ids(posts')]_vars

\* C25: once the effect of an instance of useAuth has been cleaned up, no
\* continuation of that instance calls a state setter (user, profile, error,
\* isLoading) any more.
C25_NoAuthUpdateAfterUnmount ==
  (last.op = "authResume" /\ last.arg.stale) => last.arg.sets = {}

\* C28: in every instance of useAuth a profile implies a user, and the
\* profile is that user's.
C28_ProfileBelongsToUser ==
  \A i \in Insts :
    auth[i].profile # NoProfile =>
      (auth[i].user # Null /\ auth[i].profile.id = auth[i].user)

\* what App and HomeScreen render
Screen ==
  IF ~appReady \/ auth[App].isLoading THEN "loading"
  ELSE IF auth[App].user = Null THEN "auth"
  ELSE IF auth[HomeScreen].profile.status = Approved THEN "feed"
  ELSE "waiting"

\* C30: the feed is rendered only while somebody is signed in whose own
\* profile is approved; in every other state App or HomeScreen renders another
\* screen, PostFeed and its usePosts are not mounted, no posts request is in
\* flight and no new-posts channel is open.
C30_FeedOnlyForApprovedUser ==
  /\ auth[PostFeed].mounted = (Screen = "feed")
  /\ mounted = auth[PostFeed].mounted
  /\ auth[HomeScreen].mounted = (Screen \in {"feed", "waiting"})
  /\ Screen = "feed" =>
       /\ session # Null
       /\ srvStatus[session] = Approved
       /\ auth[HomeScreen].profile = ProfileOf(session)
  /\ Screen # "feed" =>
       /\ fetches = EmptyBag
       /\ channels[NewPosts] = 0
       /\ realtimeChannel # "open"

\* C30, witness: an approved user is signed in and the feed has subscribed
\* to new posts for that user
C30_Witness ==
  /\ Screen = "feed"
  /\ session = "u1"
  /\ auth[PostFeed].user = "u1"
  /\ userId = "u1"
  /\ channels[NewPosts] = 1
  /\ BagCardinality(fetches) = 2

====
